---- MODULE Spec2Model ----
(***************************************************************************)
(* caching-transform: a wrapper around a transform function that keeps the *)
(* transform's results in files of a cache directory, one file per key.    *)
(* The model follows index.js: wrap(opts) validates the options and builds *)
(* the wrapper; the returned function (Invoke below) is one call of it.    *)
(* The file system holds one cache directory; other processes act on it    *)
(* between calls (the Ext* actions).                                       *)
(***************************************************************************)
EXTENDS Integers, Sequences, FiniteSets, TLC

\* ------------------------------------------------------------------ bounds
\* Calls made in a behaviour.
MaxCalls == 3

\* Wrappers built after the first one in a behaviour.
MaxRewraps == 1

\* Calls each of two concurrent processes makes.
MaxRaceCalls == 2

\* ------------------------------------------------------- JavaScript values
\* undefined, as the value of an option that was not given.
Undefined == "undefined"

\* Truthiness of an option value, as !x and x || y test it.
Truthy(x) == x \notin {"undefined", "false", ""}

\* A string is a sequence of character codes, a Buffer a sequence of bytes.
Str(s) == [t |-> "string", v |-> s]
Buf(b) == [t |-> "buffer", v |-> b]

RECURSIVE Flatten(_)
\* The concatenation of a sequence of sequences.
Flatten(ss) == IF ss = <<>> THEN <<>> ELSE Head(ss) \o Flatten(Tail(ss))

\* ---------------------------------------------------------------- encodings
HexDigit(n) == IF n < 10 THEN 48 + n ELSE 87 + n

\* The value of a hexadecimal digit character, -1 for any other character.
HexVal(c) ==
    IF c >= 48 /\ c <= 57 THEN c - 48
    ELSE IF c >= 97 /\ c <= 102 THEN c - 87
    ELSE IF c >= 65 /\ c <= 70 THEN c - 55
    ELSE -1

\* buffer.toString('hex'): two lower-case digits per byte.
BytesToHex(b) == Flatten([i \in DOMAIN b |-> <<HexDigit(b[i] \div 16), HexDigit(b[i] % 16)>>])

RECURSIVE HexToBytes(_)
\* Buffer.from(s, 'hex'): pairs of digits, cut at the first pair that is not
\* hexadecimal; a trailing single character is dropped.
HexToBytes(s) ==
    IF Len(s) < 2 \/ HexVal(s[1]) < 0 \/ HexVal(s[2]) < 0 THEN <<>>
    ELSE <<16 * HexVal(s[1]) + HexVal(s[2])>> \o HexToBytes(SubSeq(s, 3, Len(s)))

\* The UTF-8 bytes of one character code (below 65536, no surrogate handling).
Utf8Char(c) ==
    IF c < 128 THEN <<c>>
    ELSE IF c < 2048 THEN <<192 + (c \div 64), 128 + (c % 64)>>
    ELSE <<224 + (c \div 4096), 128 + ((c \div 64) % 64), 128 + (c % 64)>>

Utf8Encode(s) == Flatten([i \in DOMAIN s |-> Utf8Char(s[i])])

IsCont(b, i) == i <= Len(b) /\ b[i] >= 128 /\ b[i] < 192

RECURSIVE Utf8Decode(_)
\* buffer.toString('utf8'): a byte that does not start a well-formed sequence
\* becomes U+FFFD (65533).
Utf8Decode(b) ==
    IF b = <<>> THEN <<>>
    ELSE IF b[1] < 128 THEN <<b[1]>> \o Utf8Decode(Tail(b))
    ELSE IF b[1] >= 194 /\ b[1] < 224 /\ IsCont(b, 2)
        THEN <<(b[1] - 192) * 64 + (b[2] - 128)>> \o Utf8Decode(SubSeq(b, 3, Len(b)))
    ELSE IF b[1] >= 224 /\ b[1] < 240 /\ IsCont(b, 2) /\ IsCont(b, 3)
            /\ (b[1] - 224) * 4096 + (b[2] - 128) * 64 + (b[3] - 128) >= 2048
        THEN <<(b[1] - 224) * 4096 + (b[2] - 128) * 64 + (b[3] - 128)>>
                \o Utf8Decode(SubSeq(b, 4, Len(b)))
    ELSE <<65533>> \o Utf8Decode(Tail(b))

\* fs.readFileSync(path, encoding): the file's bytes as a Buffer when the
\* encoding is undefined, as a string decoded from them otherwise.
readFileSync(bytes, enc) ==
    IF enc = Undefined THEN Buf(bytes)
    ELSE IF enc = "hex" THEN Str(BytesToHex(bytes))
    ELSE Str(Utf8Decode(bytes))

\* The bytes writeFileAtomic.sync(path, data, {encoding}) stores: a Buffer as
\* it is, a string encoded with the encoding, utf8 when it is undefined.
writeFileBytes(data, enc) ==
    IF data.t = "buffer" THEN data.v
    ELSE IF enc = "hex" THEN HexToBytes(data.v)
    ELSE Utf8Encode(data.v)

\* ------------------------------------------------------------------ options
\* A value of no type wrap accepts for cacheDir.
NoValue == [t |-> "undefined", v |-> <<>>]

\* The functions a caller passes in. append is the tests' transform: it
\* returns the input followed by a suffix, in the form the configured
\* encoding reads back (a Buffer under 'buffer', hexadecimal text under 'hex').
Suffix == <<32, 116>>

append(input, enc) == readFileSync(Utf8Encode(input.v) \o Suffix, enc)

\* line 50: what the transform function returns. "text" is append as the
\* tests write it, a string whatever the encoding; "append" gives the same
\* text in the form the encoding reads back.
applyTransformFn(fn, input, enc) ==
    IF fn = "text" THEN Str(input.v \o Suffix) ELSE append(input, enc)

\* shouldTransform of the tests: false for one file name.
shouldTransformFn(input, metadata) == metadata # "/baz.js"

\* hashData of the tests: one extra string, or an array of two; and two more
\* a caller may pass, the two strings joined into one and the empty string.
\* The default of line 27 returns the empty array.
hashDataFn(kind, input, metadata) ==
    IF kind = "single" THEN Str(<<101>>)
    ELSE IF kind = "array" THEN [t |-> "array", v |-> <<Str(<<101>>), Str(<<109>>)>>]
    ELSE IF kind = "joined" THEN Str(<<101, 109>>)
    ELSE IF kind = "empty" THEN Str(<<>>)
    ELSE [t |-> "array", v |-> <<>>]

\* filenamePrefix of the tests: the base name of the file, without its
\* extension, and a dash.
filenamePrefixFn(kind, metadata) ==
    IF metadata = "/foo.js" THEN <<102, 111, 111, 45>> ELSE <<98, 97, 122, 45>>

\* What package-hash returns for the library's own package.json.
PKG_HASH == Str(<<112>>)

Inputs == {Str(<<97>>), Str(<<98>>)}
Metas == {"/foo.js", "/baz.js"}

\* The (input, metadata) pairs the wrapper is called with.
Calls == {<<Str(<<97>>), "/foo.js">>, <<Str(<<98>>), "/foo.js">>, <<Str(<<97>>), "/baz.js">>}

\* The option objects wrap is called with: every combination of the options
\* that decide the control flow, and the other cache directories and
\* encodings with a direct transform.
MainOpts ==
    [transform : {Undefined, "append"},
     factory : {Undefined, "appendFactory"},
     cacheDir : {NoValue, Str(<<47, 99>>)},
     disableCache : {Undefined, "true"},
     createCacheDir : {Undefined, "false"},
     shouldTransform : {Undefined, "byName"},
     encoding : {Undefined},
     ext : {NoValue},
     salt : {NoValue},
     hashData : {Undefined},
     onHash : {Undefined},
     filenamePrefix : {Undefined}]

EdgeOpts ==
    [transform : {"append"},
     factory : {Undefined},
     cacheDir : {Str(<<>>), Str(<<47, 99>>), [t |-> "number", v |-> <<>>]},
     disableCache : {Undefined},
     createCacheDir : {Undefined},
     shouldTransform : {Undefined},
     encoding : {Undefined, "hex", "buffer"},
     ext : {NoValue},
     salt : {NoValue},
     hashData : {Undefined},
     onHash : {Undefined},
     filenamePrefix : {Undefined}]

OptsSet == MainOpts \cup EdgeOpts

\* The option objects of the wrappers whose keys and file names are compared:
\* a direct transform, an onHash callback that records what it is given, and
\* a hashData function, a salt, or an extension with and without a
\* filenamePrefix.
KeyData ==
    [transform : {"append"},
     factory : {Undefined},
     cacheDir : {Str(<<47, 99>>)},
     disableCache : {Undefined},
     createCacheDir : {Undefined},
     shouldTransform : {Undefined},
     encoding : {Undefined},
     ext : {NoValue},
     salt : {NoValue},
     hashData : {Undefined, "single", "array", "joined", "empty"},
     onHash : {"record"},
     filenamePrefix : {Undefined}]

KeySalts ==
    [transform : {"append"},
     factory : {Undefined},
     cacheDir : {Str(<<47, 99>>)},
     disableCache : {Undefined},
     createCacheDir : {Undefined},
     shouldTransform : {Undefined},
     encoding : {Undefined},
     ext : {NoValue},
     salt : {Str(<<115>>)},
     hashData : {Undefined, "single"},
     onHash : {"record"},
     filenamePrefix : {Undefined}]

KeyNames ==
    [transform : {"append"},
     factory : {Undefined},
     cacheDir : {Str(<<47, 99>>)},
     disableCache : {Undefined},
     createCacheDir : {Undefined},
     shouldTransform : {Undefined},
     encoding : {Undefined},
     ext : {Str(<<46, 106>>)},
     salt : {NoValue},
     hashData : {Undefined},
     onHash : {"record"},
     filenamePrefix : {Undefined, "byName"}]

KeyOpts == KeyData \cup KeySalts \cup KeyNames

\* Faults of one call: the callback or the file operation that raises when
\* the call reaches it.
Faults == {"none", "shouldTransform", "hashData", "onHash", "read", "makeDir",
           "factory", "transform", "write"}

\* The calls and the faults of the wrappers whose keys and file names are
\* compared.
KeyCalls == {<<Str(<<97>>), "/foo.js">>, <<Str(<<98>>), "/baz.js">>}
KeyFaults == {"none", "onHash"}

\* Wrappers with every combination of the three hooks, and the faults that
\* make a hook raise.
HookOpts ==
    [transform : {Undefined, "append"},
     factory : {Undefined, "appendFactory"},
     cacheDir : {Str(<<47, 99>>)},
     disableCache : {Undefined},
     createCacheDir : {Undefined, "false"},
     shouldTransform : {Undefined, "byName"},
     encoding : {Undefined},
     ext : {NoValue},
     salt : {NoValue},
     hashData : {Undefined, "single"},
     onHash : {Undefined, "record"},
     filenamePrefix : {Undefined}]

\* Wrappers with the cache disabled and the key hooks configured.
OffOpts ==
    [transform : {"append"},
     factory : {Undefined},
     cacheDir : {NoValue, Str(<<47, 99>>)},
     disableCache : {"true"},
     createCacheDir : {Undefined},
     shouldTransform : {Undefined, "byName"},
     encoding : {Undefined},
     ext : {NoValue},
     salt : {NoValue},
     hashData : {"single"},
     onHash : {"record"},
     filenamePrefix : {Undefined}]

\* Wrappers of one module, some with the cache disabled or a shouldTransform,
\* all with a recording onHash.
OwnOpts ==
    [transform : {"append"},
     factory : {Undefined},
     cacheDir : {Str(<<47, 99>>)},
     disableCache : {Undefined, "true"},
     createCacheDir : {Undefined},
     shouldTransform : {Undefined, "byName"},
     encoding : {Undefined},
     ext : {NoValue},
     salt : {NoValue, Str(<<115>>)},
     hashData : {Undefined},
     onHash : {"record"},
     filenamePrefix : {Undefined}]

\* Wrappers with each encoding, over a transform that returns what the
\* encoding reads back and one that returns plain text.
EncOpts ==
    [transform : {"append", "text"},
     factory : {Undefined},
     cacheDir : {Str(<<47, 99>>)},
     disableCache : {Undefined},
     createCacheDir : {Undefined},
     shouldTransform : {Undefined},
     encoding : {Undefined, "hex", "buffer"},
     ext : {NoValue},
     salt : {NoValue},
     hashData : {Undefined},
     onHash : {Undefined},
     filenamePrefix : {Undefined}]

\* The options of two wrappers that share a cache directory, and the
\* metadata of their calls.
RaceOpts ==
    [transform : {"append"},
     factory : {Undefined},
     cacheDir : {Str(<<47, 99>>)},
     disableCache : {Undefined},
     createCacheDir : {Undefined, "false"},
     shouldTransform : {Undefined},
     encoding : {Undefined, "hex", "buffer"},
     ext : {NoValue},
     salt : {NoValue},
     hashData : {Undefined},
     onHash : {Undefined},
     filenamePrefix : {Undefined}]

RaceMeta == "/foo.js"

HookFaults == {"none", "shouldTransform", "hashData", "onHash"}

\* Bytes another process may put in a cache file.
ExtContents == {<<255>>}

\* -------------------------------------------------------------------- state
VARIABLES
    phase,        \* "none", "wrapped" (wrap returned) or "threw" (wrap threw)
    wrapError,    \* the message wrap threw, "" if none
    opts,         \* the options wrap was given, with the defaults once accepted
    transformFn,  \* index.js: let transformFn
    created,      \* index.js: let created
    ownHash,      \* index.js: module-level ownHash
    dirExists,    \* the cache directory exists
    files,        \* path -> bytes, the files of the cache directory
    call,         \* the arguments of the last call
    log,          \* what the last call did, in order, each with its error
    ret,          \* how the last call ended
    seen,         \* the arguments the last call gave the callbacks
    count,        \* totals over the behaviour (the life of the wrapper in Spec)
    populated,    \* path -> the value of the miss that wrote the file, for
                  \* the files no other process has touched since
    hashes,       \* what the recording onHash callback has collected, one
                  \* entry per call, each with the salt, the extension and
                  \* the hashData output of the call
    race          \* two processes that call their wrappers step by step:
                  \* each one's position, input, created flag, result and
                  \* return value

vars == <<phase, wrapError, opts, transformFn, created, ownHash, dirExists,
          files, call, log, ret, seen, count, populated, hashes, race>>

NoRet == [kind |-> "none", val |-> Str(<<>>), err |-> ""]
Return(v) == [kind |-> "return", val |-> v, err |-> ""]
Throw(e) == [kind |-> "throw", val |-> Str(<<>>), err |-> e]

\* One entry of the log: an operation and the error it raised, "" if none.
Ev(op, err) == [op |-> op, err |-> err]
Ok(op) == Ev(op, "")

NoCall == [input |-> Str(<<>>), metadata |-> ""]

\* factoryArg: the factory's argument; input, metadata, hash: the transform's
\* arguments; onHashInput, onHashMetadata, onHash: those of onHash; key,
\* path, aux: the call's hash (line 68), cachedPath (line 69) and hashData
\* output (line 66).
NoSeen == [factoryArg |-> NoValue, input |-> NoValue, metadata |-> "",
           hash |-> NoValue, onHash |-> NoValue, onHashInput |-> NoValue,
           onHashMetadata |-> "", key |-> NoValue, path |-> <<>>, aux |-> NoValue]

\* invoke: calls; passed: calls that got past the shouldTransform check;
\* unrealized: calls in which makeDir.sync or the factory raised; makeDir,
\* factory, transform: calls of makeDir.sync, the factory, the transform;
\* notFound: calls that ended in a not-found error; rewrap: wrappers built
\* after the first.
ZeroCount == [invoke |-> 0, passed |-> 0, unrealized |-> 0, makeDir |-> 0,
              factory |-> 0, transform |-> 0, notFound |-> 0, rewrap |-> 0]

\* Two processes, each with the module loaded and a wrapper built from the
\* same options; they share the cache directory.
Procs == {1, 2}

\* runs: the invocations of the process's transform; calls: its calls.
NoRace == [pc |-> [p \in Procs |-> "idle"],
           input |-> [p \in Procs |-> Str(<<>>)],
           created |-> [p \in Procs |-> FALSE],
           result |-> [p \in Procs |-> NoValue],
           ret |-> [p \in Procs |-> NoRet],
           runs |-> [p \in Procs |-> 0],
           calls |-> [p \in Procs |-> 0]]

Init ==
    /\ phase = "none"
    /\ wrapError = ""
    /\ opts \in {[o \in {} |-> o]}
    /\ transformFn = Undefined
    /\ created = FALSE
    /\ ownHash = Str(<<>>)
    /\ dirExists = FALSE
    /\ files = [p \in {} |-> <<>>]
    /\ call = NoCall
    /\ log = <<>>
    /\ ret = NoRet
    /\ seen = NoSeen
    /\ count = ZeroCount
    /\ populated = [p \in {} |-> NoValue]
    /\ hashes = <<>>
    /\ race = NoRace

\* --------------------------------------------------------------------- wrap
\* BadTransformChoice without the test for both.
BadTransformChoiceNeither(o) == ~(Truthy(o.factory) \/ Truthy(o.transform))

\* index.js line 16: neither factory nor transform, or both.
BadTransformChoice(o) ==
    \/ ~(Truthy(o.factory) \/ Truthy(o.transform))
    \/ (Truthy(o.factory) /\ Truthy(o.transform))

\* BadCacheDir without the disableCache exemption (as in the first versions).
BadCacheDirAlways(o) == o.cacheDir.t # "string"

\* BadCacheDir that takes undefined alone for a missing cacheDir.
BadCacheDirUndefined(o) == o.cacheDir.t = "undefined" /\ ~Truthy(o.disableCache)

\* index.js line 20.
BadCacheDir(o) == o.cacheDir.t # "string" /\ ~Truthy(o.disableCache)

\* The defaults of lines 24-29.
WithDefaults(o) ==
    [o EXCEPT !.ext = IF o.ext = NoValue THEN Str(<<>>) ELSE o.ext,
              !.salt = IF o.salt = NoValue THEN Str(<<>>) ELSE o.salt]

\* line 33
cacheDirCreatedOf(o) == o.createCacheDir = "false"

\* createdOf without the createCacheDir test.
createdOfTransform(o) == Truthy(o.transform)

\* line 34
createdOf(o) == Truthy(o.transform) /\ cacheDirCreatedOf(o)

\* line 35
encodingOf(o) ==
    IF o.encoding = "buffer" THEN Undefined
    ELSE IF Truthy(o.encoding) THEN o.encoding ELSE "utf8"

Wrap(o) ==
    /\ phase = "none"
    /\ IF BadTransformChoice(o)
       THEN /\ phase' = "threw"
            /\ wrapError' = "Specify factory or transform but not both"
            /\ opts' = o
            /\ UNCHANGED <<transformFn, created>>
       ELSE IF BadCacheDir(o)
       THEN /\ phase' = "threw"
            /\ wrapError' = "cacheDir must be a string"
            /\ opts' = o
            /\ UNCHANGED <<transformFn, created>>
       ELSE /\ phase' = "wrapped"
            /\ opts' = WithDefaults(o)
            /\ transformFn' = o.transform
            /\ created' = createdOf(o)
            /\ UNCHANGED wrapError
    /\ UNCHANGED <<ownHash, dirExists, files, call, log, ret, seen, count, populated,
                   hashes, race>>

\* wrap is called again in the same process: the calls that follow are made
\* on the wrapper it returns, over the same file system and with the same
\* module-level ownHash. When it throws, the wrapper in use stays.
WrapAgain(o) ==
    /\ phase = "wrapped"
    /\ count.rewrap < MaxRewraps
    /\ count' = [count EXCEPT !.rewrap = @ + 1]
    /\ IF BadTransformChoice(o)
       THEN /\ wrapError' = "Specify factory or transform but not both"
            /\ UNCHANGED <<opts, transformFn, created>>
       ELSE IF BadCacheDir(o)
       THEN /\ wrapError' = "cacheDir must be a string"
            /\ UNCHANGED <<opts, transformFn, created>>
       ELSE /\ opts' = WithDefaults(o)
            /\ transformFn' = o.transform
            /\ created' = createdOf(o)
            /\ UNCHANGED wrapError
    /\ UNCHANGED <<phase, ownHash, dirExists, files, call, log, ret, seen, populated,
                   hashes, race>>

\* ------------------------------------------------------- the wrapper's call
cacheDirCreated == cacheDirCreatedOf(opts)
encoding == encodingOf(opts)

\* The bytes hasha feeds to the digest for one element of its input array.
Bytes(x) == IF x.t = "buffer" THEN x.v ELSE Utf8Encode(x.v)

\* hasha(data, {algorithm: 'sha256'}): the digest of the elements' bytes, fed
\* one after the other. The digest is modelled by the hexadecimal text of
\* the bytes it was fed: equal keys exactly for equal byte streams.
hasha(data) == Str(BytesToHex(Flatten([i \in DOMAIN data |-> Bytes(data[i])])))

\* [].concat(x): the elements of an array, or the one value.
concat(x) == IF x.t = "array" THEN x.v ELSE <<x>>

\* dataOf with the salt before the input.
dataOfSaltFirst(own, input, metadata) ==
    <<own, opts.salt, input>> \o concat(hashDataFn(opts.hashData, input, metadata))

\* dataOf that reads the module's ownHash before getOwnHash has set it.
dataOfStaleOwn(own, input, metadata) ==
    <<ownHash, input, opts.salt>> \o concat(hashDataFn(opts.hashData, input, metadata))

\* dataOf with the metadata as one more element.
dataOfWithMetadata(own, input, metadata) ==
    <<own, input, opts.salt, Str(IF metadata = "/baz.js" THEN <<122>> ELSE <<111>>)>>
        \o concat(hashDataFn(opts.hashData, input, metadata))

\* lines 62-67
dataOf(own, input, metadata) ==
    <<own, input, opts.salt>> \o concat(hashDataFn(opts.hashData, input, metadata))

\* path.join(dir, name)
pathJoin(dir, name) == IF dir = <<>> THEN name ELSE dir \o <<47>> \o name

\* cachedPathOf without the extension.
cachedPathOfNoExt(hash) == pathJoin(opts.cacheDir.v, hash.v)

\* line 69
cachedPathOf(hash) == pathJoin(opts.cacheDir.v, hash.v \o opts.ext.v)

\* The key and the path of an input, for stating properties.
KeyOf(input, metadata) == hasha(dataOf(PKG_HASH, input, metadata))
PathOf(input, metadata) == cachedPathOf(KeyOf(input, metadata))

\* The transform the factory builds.
factoryFn(f, dir) == "append"

\* NeedsMakeDir without the created test: the directory is made on every use.
NeedsMakeDirEveryTime == ~cacheDirCreated /\ ~Truthy(opts.disableCache)

\* NeedsMakeDir without the disableCache test.
NeedsMakeDirCacheOff == ~created /\ ~cacheDirCreated

\* NeedsMakeDir without the createCacheDir test.
NeedsMakeDirUnasked == ~created /\ ~Truthy(opts.disableCache)

\* line 39: the first use creates the cache directory.
NeedsMakeDir == ~created /\ ~cacheDirCreated /\ ~Truthy(opts.disableCache)

\* NeedsFactory without the memo: the factory is called on every use.
NeedsFactoryEveryTime == ~Truthy(opts.transform)

\* line 43: the first use calls the factory.
NeedsFactory == ~created /\ ~Truthy(transformFn)

\* createdAfter that sets the flag on entry, before makeDir and the factory.
createdAfterAttempt(reached) == TRUE

\* line 47: created = true, reached when makeDir and the factory returned.
createdAfter(reached) == created \/ reached

\* makeDirAborts of a creation whose error is caught and ignored.
makeDirAbortsNever(mkThrows) == FALSE

\* line 40: an error of makeDir.sync leaves transform, and the call, at once.
makeDirAborts(mkThrows) == mkThrows

\* lines 37-51: function transform(input, metadata, hash), entered with the
\* log lg; the record holds what it leaves behind and how it ended.
transform(input, metadata, hash, fault, lg) ==
    LET mk == NeedsMakeDir
        mkFails == mk /\ fault = "makeDir"
        mkThrows == makeDirAborts(mkFails)
        lg1 == IF mk THEN Append(lg, Ev("makeDir", IF mkFails THEN "EACCES" ELSE ""))
               ELSE lg
        fa == ~mkThrows /\ NeedsFactory
        faThrows == fa /\ fault = "factory"
        lg2 == IF fa THEN Append(lg1, Ev("factory", IF faThrows THEN "FactoryError" ELSE ""))
               ELSE lg1
        reached == ~mkThrows /\ ~faThrows
        fn == IF fa /\ ~faThrows THEN factoryFn(opts.factory, opts.cacheDir) ELSE transformFn
        trThrows == reached /\ (fault = "transform" \/ ~Truthy(fn))
    IN  [log |-> IF reached
                 THEN Append(lg2, Ev("transform", IF ~Truthy(fn) THEN "TypeError"
                                                  ELSE IF trThrows THEN "TransformError"
                                                  ELSE ""))
                 ELSE lg2,
         ret |-> IF mkThrows THEN Throw("EACCES")
                 ELSE IF faThrows THEN Throw("FactoryError")
                 ELSE IF ~Truthy(fn) THEN Throw("TypeError")
                 ELSE IF trThrows THEN Throw("TransformError")
                 ELSE Return(applyTransformFn(fn, input, encoding)),
         created |-> createdAfter(reached),
         transformFn |-> fn,
         dirExists |-> dirExists \/ (mk /\ ~mkFails),
         factoryArg |-> IF fa THEN opts.cacheDir ELSE NoValue,
         input |-> IF reached THEN input ELSE NoValue,
         metadata |-> IF reached THEN metadata ELSE "",
         hash |-> IF reached THEN hash ELSE NoValue,
         made |-> IF mk THEN 1 ELSE 0,
         built |-> IF fa THEN 1 ELSE 0,
         ran |-> IF reached THEN 1 ELSE 0,
         unrealized |-> IF reached THEN 0 ELSE 1]

\* What a call leaves unchanged unless it says otherwise.
Same ==
    [log |-> <<>>, ret |-> NoRet, created |-> created, transformFn |-> transformFn,
     dirExists |-> dirExists, factoryArg |-> NoValue, input |-> NoValue,
     metadata |-> "", hash |-> NoValue, onHash |-> NoValue, made |-> 0, built |-> 0,
     ran |-> 0, unrealized |-> 0, ownHash |-> ownHash, files |-> files, passed |-> 0,
     onHashInput |-> NoValue, onHashMetadata |-> "", key |-> NoValue, path |-> <<>>,
     aux |-> NoValue, recorded |-> <<>>]

\* ReadError with every read failing: the cache is never hit.
ReadErrorNeverHits(path, fault) == "ENOENT"

\* The error of fs.readFileSync(path): no such file, or the read is refused.
ReadError(path, fault) ==
    IF ~dirExists \/ path \notin DOMAIN files THEN "ENOENT"
    ELSE IF fault = "read" THEN "EACCES"
    ELSE ""

\* WriteError of a write that creates the missing directory.
WriteErrorRecursive(dir, fault) == IF fault = "write" THEN "EACCES" ELSE ""

\* The error of writeFileAtomic.sync(path): no such directory, or the write
\* is refused.
WriteError(dir, fault) ==
    IF ~dir THEN "ENOENT"
    ELSE IF fault = "write" THEN "EACCES"
    ELSE ""

\* Written into a directory emptied first.
WrittenAlone(path, data) == [p \in {path} |-> writeFileBytes(data, encoding)]

\* Written with the default encoding in the place of the configured one.
WrittenUtf8(path, data) ==
    [p \in DOMAIN files \cup {path} |->
        IF p = path THEN writeFileBytes(data, "utf8") ELSE files[p]]

\* Written with the write lost: the result is returned but never stored.
WrittenNothing(path, data) == files

\* The file system after writeFileAtomic.sync(path, data, {encoding}).
Written(path, data) ==
    [p \in DOMAIN files \cup {path} |->
        IF p = path THEN writeFileBytes(data, encoding) ELSE files[p]]

\* missArgs without the hash, as in the call of line 59.
missArgsNoHash(input, metadata, hash) == <<input, metadata, NoValue>>

\* line 78: the arguments the miss gives transform.
missArgs(input, metadata, hash) == <<input, metadata, hash>>

\* persistFailed of a miss that runs the transform and the write once more.
persistFailedRetransform(r, lg, err, result) ==
    [r EXCEPT !.log = lg \o <<Ev("write", err), Ok("transform"), Ev("write", err)>>,
              !.ran = 2,
              !.ret = Throw(err)]

\* persistFailed of a miss that goes back to the read.
persistFailedReread(r, lg, err, result) ==
    [r EXCEPT !.log = lg \o <<Ev("write", err), Ev("read", "ENOENT")>>,
              !.ret = Throw(err)]

\* persistFailed of a miss that tries the write a second time.
persistFailedRetried(r, lg, err, result) ==
    [r EXCEPT !.log = lg \o <<Ev("write", err), Ev("write", err)>>,
              !.ret = Throw(err)]

\* persistFailed of a wrapper that keeps the result for its next call: the
\* file appears although the write raised.
persistFailedStored(r, lg, err, result) ==
    [r EXCEPT !.log = Append(lg, Ev("write", err)), !.ret = Throw(err),
              !.files = IF r.dirExists THEN Written(r.path, result) ELSE @]

\* persistFailed of a miss that catches the error and returns the result.
persistFailedSwallowed(r, lg, err, result) ==
    [r EXCEPT !.log = Append(lg, Ev("write", err)), !.ret = Return(result)]

\* line 79, writeFileAtomic.sync throwing: the error leaves the call.
persistFailed(r, lg, err, result) ==
    [r EXCEPT !.log = Append(lg, Ev("write", err)), !.ret = Throw(err)]

\* missThrew of a wrapper that forgets its realization when the transform
\* throws.
missThrewUnrealized(r, cachedPath) ==
    [r EXCEPT !.created = (r.ran = 0 /\ @), !.transformFn = IF r.ran = 1 THEN opts.transform ELSE @]

\* missThrew of a miss that stores an empty result when the transform throws.
missThrewStored(r, cachedPath) ==
    [r EXCEPT !.files = IF r.dirExists /\ r.ran = 1 THEN Written(cachedPath, Str(<<>>)) ELSE @]

\* line 78, transform throwing: the error leaves the call, line 79 is not
\* reached.
missThrew(r, cachedPath) == r

\* hitValue of a wrapper that remembers the value its last call returned for
\* the path.
hitValueRemembered(cachedPath) ==
    IF ret.kind = "return" /\ count.passed > 0 /\ PathOf(call.input, call.metadata) = cachedPath
    THEN ret.val
    ELSE readFileSync(files[cachedPath], encoding)

\* line 76: the value of a hit is what readFileSync returns for the file as
\* it is now.
hitValue(cachedPath) == readFileSync(files[cachedPath], encoding)

\* lines 75-81: the read, and on its failure the transform and the write.
readThrough(input, metadata, hash, fault, lg, r) ==
    LET cachedPath == cachedPathOf(hash)
        rdErr == ReadError(cachedPath, fault)
        lg1 == Append(lg, Ev("read", rdErr))
        a == missArgs(input, metadata, hash)
    IN  IF rdErr = ""
        THEN [r EXCEPT !.log = lg1,
                       !.ret = Return(hitValue(cachedPath))]
        ELSE LET t == transform(a[1], a[2], a[3], fault, lg1)
                 r1 == [k \in DOMAIN r |-> IF k \in DOMAIN t THEN t[k] ELSE r[k]]
                 wrErr == WriteError(t.dirExists, fault)
             IN  IF t.ret.kind = "throw" THEN missThrew(r1, cachedPath)
                 ELSE IF wrErr # ""
                 THEN persistFailed(r1, t.log, wrErr, t.ret.val)
                 ELSE [r1 EXCEPT !.log = Append(t.log, Ok("write")),
                                 !.files = Written(cachedPath, t.ret.val)]

\* hookThrew of a call that catches a hook's error and returns undefined.
hookThrewSwallowed(r, lg) == [r EXCEPT !.log = lg, !.ret = Return(NoValue)]

\* lines 54, 66 and 72: an error of shouldTransform, hashData or onHash
\* leaves the call.
hookThrew(r, lg) == [r EXCEPT !.log = lg, !.ret = Throw("HookError")]

\* onHashArgs with the path in the place of the hash.
onHashArgsPath(input, metadata, hash) == <<input, metadata, Str(cachedPathOf(hash))>>

\* line 72: the arguments onHash is given.
onHashArgs(input, metadata, hash) == <<input, metadata, hash>>

\* onHash of the tests, as a recorder: the entry it adds for one call, with
\* the call's hashData output and cachedPath.
record(input, metadata, hash, aux, cachedPath) ==
    [input |-> input, metadata |-> metadata, hash |-> hash, salt |-> opts.salt,
     ext |-> opts.ext, aux |-> aux, path |-> cachedPath]

\* ownHashMissing of a module that does not keep the hash it computed.
ownHashMissingAlways == TRUE

\* line 63, ownHash || getOwnHash(): the module-level ownHash is still ''.
ownHashMissing == ownHash.v = <<>>

\* lines 62-73: the key, the path and the onHash callback.
cached(input, metadata, fault, lg, r) ==
    LET first == ownHashMissing
        own == IF first THEN PKG_HASH ELSE ownHash
        hdThrows == fault = "hashData" /\ Truthy(opts.hashData)
        lg1 == Append(IF first THEN Append(lg, Ok("getOwnHash")) ELSE lg,
                      Ev("hashData", IF hdThrows THEN "HookError" ELSE ""))
        r1 == [r EXCEPT !.ownHash = own]
    IN  IF hdThrows
        THEN hookThrew(r1, lg1)
        ELSE LET hash == hasha(dataOf(own, input, metadata))
                 on == Truthy(opts.onHash)
                 onThrows == on /\ fault = "onHash"
                 lg2 == IF on THEN Append(lg1, Ev("onHash", IF onThrows THEN "HookError" ELSE ""))
                        ELSE lg1
                 a == onHashArgs(input, metadata, hash)
                 aux == hashDataFn(opts.hashData, input, metadata)
                 r2 == [r1 EXCEPT !.key = hash,
                                  !.path = cachedPathOf(hash),
                                  !.aux = aux,
                                  !.onHashInput = IF on THEN a[1] ELSE @,
                                  !.onHashMetadata = IF on THEN a[2] ELSE @,
                                  !.onHash = IF on THEN a[3] ELSE @,
                                  !.recorded = IF on /\ ~onThrows /\ opts.onHash = "record"
                                               THEN <<record(a[1], a[2], a[3], aux, cachedPathOf(hash))>>
                                               ELSE @]
             IN  IF onThrows
                 THEN hookThrew(r2, lg2)
                 ELSE readThrough(input, metadata, hash, fault, lg2, r2)

\* Bypassed with the disableCache branch taken first.
BypassedAfterDisableCache(input, metadata) ==
    /\ ~Truthy(opts.disableCache)
    /\ Truthy(opts.shouldTransform)
    /\ ~shouldTransformFn(input, metadata)

\* line 54: shouldTransform is given and returns false.
Bypassed(input, metadata) ==
    Truthy(opts.shouldTransform) /\ ~shouldTransformFn(input, metadata)

\* uncachedArgs with the key of the input as the third argument.
uncachedArgsHashed(input, metadata) == <<input, metadata, KeyOf(input, metadata)>>

\* line 59: transform(input, metadata), no hash.
uncachedArgs(input, metadata) == <<input, metadata, NoValue>>

\* lines 53-82: the function wrap returns.
wrapped(input, metadata, fault) ==
    LET st == Truthy(opts.shouldTransform)
        stThrows == st /\ fault = "shouldTransform"
        lg == IF st THEN <<Ev("shouldTransform", IF stThrows THEN "HookError" ELSE "")>>
              ELSE <<>>
    IN  IF stThrows
        THEN hookThrew(Same, lg)
        ELSE IF Bypassed(input, metadata)
        THEN [Same EXCEPT !.log = lg, !.ret = Return(input)]
        ELSE IF Truthy(opts.disableCache)
        THEN LET a == uncachedArgs(input, metadata)
                 t == transform(a[1], a[2], a[3], fault, lg)
             IN  [k \in DOMAIN Same |->
                    IF k = "passed" THEN 1 ELSE IF k \in DOMAIN t THEN t[k] ELSE Same[k]]
        ELSE cached(input, metadata, fault, lg, [Same EXCEPT !.passed = 1])

Invoke(input, metadata, fault) ==
    /\ phase = "wrapped"
    /\ count.invoke < MaxCalls
    /\ \E r \in {wrapped(input, metadata, fault)} :
           /\ call' = [input |-> input, metadata |-> metadata]
           /\ log' = r.log
           /\ ret' = r.ret
           /\ created' = r.created
           /\ transformFn' = r.transformFn
           /\ ownHash' = r.ownHash
           /\ dirExists' = r.dirExists
           /\ files' = r.files
           /\ seen' = [factoryArg |-> r.factoryArg, input |-> r.input,
                       metadata |-> r.metadata, hash |-> r.hash, onHash |-> r.onHash,
                       onHashInput |-> r.onHashInput,
                       onHashMetadata |-> r.onHashMetadata,
                       key |-> r.key, path |-> r.path, aux |-> r.aux]
           /\ count' = [invoke |-> count.invoke + 1,
                        passed |-> count.passed + r.passed,
                        unrealized |-> count.unrealized + r.unrealized,
                        makeDir |-> count.makeDir + r.made,
                        factory |-> count.factory + r.built,
                        transform |-> count.transform + r.ran,
                        notFound |-> count.notFound
                                        + (IF r.ret.err = "ENOENT" THEN 1 ELSE 0),
                        rewrap |-> count.rewrap]
           /\ hashes' = hashes \o r.recorded
           /\ populated' =
                IF r.log # <<>> /\ r.log[Len(r.log)] = Ok("write")
                THEN [p \in DOMAIN populated \cup {cachedPathOf(r.hash)} |->
                        IF p = cachedPathOf(r.hash) THEN r.ret.val ELSE populated[p]]
                ELSE populated
    /\ UNCHANGED <<phase, wrapError, opts, race>>

\* ------------------------------------------------- other processes, the disk
HasCacheDir == phase = "wrapped" /\ opts.cacheDir.t = "string"

\* The paths the wrapper may use.
CachePaths == IF HasCacheDir THEN {PathOf(i, m) : i \in Inputs, m \in Metas} ELSE {}

\* The cache directory is created from outside (the tests' makeDir.sync).
ExtMakeDir ==
    /\ HasCacheDir
    /\ ~dirExists
    /\ dirExists' = TRUE
    /\ UNCHANGED <<phase, wrapError, opts, transformFn, created, ownHash, files,
                   call, log, ret, seen, count, populated, hashes, race>>

\* The cache directory is removed with all its files (the tests' rimraf.sync).
ExtRimraf ==
    /\ HasCacheDir
    /\ dirExists
    /\ dirExists' = FALSE
    /\ files' = [p \in {} |-> <<>>]
    /\ populated' = [p \in {} |-> NoValue]
    /\ UNCHANGED <<phase, wrapError, opts, transformFn, created, ownHash,
                   call, log, ret, seen, count, hashes, race>>

\* A cache file is written from outside (the tests' fs.writeFileSync).
ExtWriteFile(path, bytes) ==
    /\ HasCacheDir
    /\ dirExists
    /\ files' = [p \in DOMAIN files \cup {path} |-> IF p = path THEN bytes ELSE files[p]]
    /\ populated' = [p \in DOMAIN populated \ {path} |-> populated[p]]
    /\ UNCHANGED <<phase, wrapError, opts, transformFn, created, ownHash, dirExists,
                   call, log, ret, seen, count, hashes, race>>

\* A cache file is deleted from outside.
ExtUnlink(path) ==
    /\ HasCacheDir
    /\ path \in DOMAIN files
    /\ files' = [p \in DOMAIN files \ {path} |-> files[p]]
    /\ populated' = [p \in DOMAIN populated \ {path} |-> populated[p]]
    /\ UNCHANGED <<phase, wrapError, opts, transformFn, created, ownHash, dirExists,
                   call, log, ret, seen, count, hashes, race>>

Next ==
    \/ \E o \in OptsSet : Wrap(o)
    \/ \E c \in Calls, f \in Faults : Invoke(c[1], c[2], f)
    \/ ExtMakeDir
    \/ ExtRimraf
    \/ \E p \in CachePaths, b \in ExtContents : ExtWriteFile(p, b)
    \/ \E p \in CachePaths : ExtUnlink(p)

Spec == Init /\ [][Next]_vars

\* ------------------------------------- several wrappers, keys and file names
\* Wrappers with salts, hashData functions, extensions and prefixes, built
\* one after the other over one cache directory, each with a recording
\* onHash.
NextKey ==
    \/ \E o \in KeyOpts : Wrap(o)
    \/ \E o \in KeyOpts : WrapAgain(o)
    \/ \E c \in KeyCalls, f \in KeyFaults : Invoke(c[1], c[2], f)

KeySpec == Init /\ [][NextKey]_vars

\* ------------------------------------------------------ hooks that raise
\* Wrappers with and without each hook, called with hooks that return and
\* hooks that raise, over a directory that may exist beforehand and whose
\* files may be deleted from outside.
NextHook ==
    \/ \E o \in HookOpts \cup OffOpts : Wrap(o)
    \/ \E c \in Calls, f \in HookFaults : Invoke(c[1], c[2], f)
    \/ ExtMakeDir
    \/ \E p \in CachePaths : ExtUnlink(p)

HookSpec == Init /\ [][NextHook]_vars

\* ---------------------------------------------------------------- encodings
\* Wrappers with each encoding: misses, hits, and misses again after the
\* file was deleted.
NextEnc ==
    \/ \E o \in EncOpts : Wrap(o)
    \/ \E c \in Calls : Invoke(c[1], c[2], "none")
    \/ \E p \in CachePaths : ExtUnlink(p)

EncSpec == Init /\ [][NextEnc]_vars

\* ------------------------------------------------- two concurrent processes
\* The call of the returned function, one step per file-system operation, in
\* each of two processes. The variables of the single wrapper stay as wrap
\* left them; each process has its created flag in race.

\* tmpName with the data written straight to the target.
tmpNameInPlace(path, p) == path

\* The temporary file writeFileAtomic.sync writes before it renames it to the
\* target: the target's name with a suffix unique to the writer.
tmpName(path, p) == path \o <<46, 48 + p>>

RacePath(p) == PathOf(race.input[p], RaceMeta)

RaceFrame ==
    UNCHANGED <<phase, wrapError, opts, transformFn, created, ownHash, call, log,
                ret, seen, count, populated, hashes>>

\* lines 53-73: the call starts; the key and the path are derived.
RaceCall(p, input) ==
    /\ phase = "wrapped"
    /\ race.pc[p] \in {"idle", "done"}
    /\ race.calls[p] < MaxRaceCalls
    /\ race' = [race EXCEPT !.pc[p] = "read", !.input[p] = input,
                            !.result[p] = NoValue, !.ret[p] = NoRet,
                            !.calls[p] = @ + 1]
    /\ UNCHANGED <<dirExists, files>>
    /\ RaceFrame

\* lines 75-77: the read returns the file, or fails and enters the catch.
RaceRead(p) ==
    /\ race.pc[p] = "read"
    /\ race' = IF dirExists /\ RacePath(p) \in DOMAIN files
               THEN [race EXCEPT !.pc[p] = "done",
                                 !.ret[p] = Return(readFileSync(files[RacePath(p)], encoding))]
               ELSE [race EXCEPT !.pc[p] = "transform"]
    /\ UNCHANGED <<dirExists, files>>
    /\ RaceFrame

\* lines 78 and 37-51: the directory is made on the process's first use, and
\* the transform runs.
RaceTransform(p) ==
    /\ race.pc[p] = "transform"
    /\ dirExists' = (dirExists \/ (~race.created[p] /\ ~cacheDirCreated))
    /\ race' = [race EXCEPT !.pc[p] = "open", !.created[p] = TRUE,
                            !.result[p] = applyTransformFn(opts.transform, race.input[p], encoding),
                            !.runs[p] = @ + 1]
    /\ UNCHANGED files
    /\ RaceFrame

\* line 79, writeFileAtomic.sync opens its temporary file: the file exists,
\* empty; without the directory the open fails and the call raises.
RaceOpenTmp(p) ==
    /\ race.pc[p] = "open"
    /\ IF dirExists
       THEN /\ files' = [q \in DOMAIN files \cup {tmpName(RacePath(p), p)} |->
                            IF q = tmpName(RacePath(p), p) THEN <<>> ELSE files[q]]
            /\ race' = [race EXCEPT !.pc[p] = "write"]
       ELSE /\ files' = files
            /\ race' = [race EXCEPT !.pc[p] = "done", !.ret[p] = Throw("ENOENT")]
    /\ UNCHANGED dirExists
    /\ RaceFrame

\* line 79, writeFileAtomic.sync writes the encoded result to its temporary
\* file.
RaceWriteTmp(p) ==
    /\ race.pc[p] = "write"
    /\ files' = [files EXCEPT ![tmpName(RacePath(p), p)] =
                    writeFileBytes(race.result[p], encoding)]
    /\ race' = [race EXCEPT !.pc[p] = "rename"]
    /\ UNCHANGED dirExists
    /\ RaceFrame

\* lines 79-80, writeFileAtomic.sync renames the temporary file to the target
\* in one step, and the call returns the result.
RaceRename(p) ==
    /\ race.pc[p] = "rename"
    /\ files' = [q \in (DOMAIN files \ {tmpName(RacePath(p), p)}) \cup {RacePath(p)} |->
                    IF q = RacePath(p) THEN files[tmpName(RacePath(p), p)] ELSE files[q]]
    /\ race' = [race EXCEPT !.pc[p] = "done", !.ret[p] = Return(race.result[p])]
    /\ UNCHANGED dirExists
    /\ RaceFrame

NextRace ==
    \/ \E o \in RaceOpts : Wrap(o)
    \/ \E p \in Procs, i \in Inputs : RaceCall(p, i)
    \/ \E p \in Procs : RaceRead(p)
    \/ \E p \in Procs : RaceTransform(p)
    \/ \E p \in Procs : RaceOpenTmp(p)
    \/ \E p \in Procs : RaceWriteTmp(p)
    \/ \E p \in Procs : RaceRename(p)
    \/ ExtMakeDir

RaceSpec == Init /\ [][NextRace]_vars

\* ------------------------------------------------ the module's own hash
\* Wrappers built one after the other in one process, with the cache enabled
\* or disabled and with or without a shouldTransform.
NextOwn ==
    \/ \E o \in OwnOpts : Wrap(o)
    \/ \E o \in OwnOpts : WrapAgain(o)
    \/ \E c \in Calls, f \in KeyFaults : Invoke(c[1], c[2], f)

OwnSpec == Init /\ [][NextOwn]_vars

\* =============================================================== properties
\* The last call performed operation op.
Did(op) == \E i \in DOMAIN log : log[i].op = op

\* How often the last call performed operation op.
Times(op) == Cardinality({i \in DOMAIN log : log[i].op = op})

\* The error operation op raised in the last call, "" if it did not.
ErrOf(op) == IF \E i \in DOMAIN log : log[i].op = op /\ log[i].err # ""
             THEN (CHOOSE e \in {log[i].err : i \in DOMAIN log} :
                      \E i \in DOMAIN log : log[i].op = op /\ log[i].err = e)
             ELSE ""

\* This step is a call of the wrapper.
IsInvoke == phase = "wrapped" /\ count'.invoke = count.invoke + 1

CacheEnabled == phase = "wrapped" /\ ~Truthy(opts.disableCache)

\* The call's shouldTransform check lets it through (absent, or true).
Passes(c) == ~Truthy(opts.shouldTransform) \/ shouldTransformFn(c.input, c.metadata)

\* The cache path of a call.
PathOfCall(c) == PathOf(c.input, c.metadata)

\* No callback of the call raised before the read.
HooksReturned ==
    ErrOf("shouldTransform") = "" /\ ErrOf("hashData") = "" /\ ErrOf("onHash") = ""

\* C1: in a cache-enabled wrapper, a call that passes the shouldTransform
\* check and finds a readable file at the path derived for its input (its
\* hooks returning, the read not refused) returns that file's content as
\* readFileSync decodes it, and neither the transform nor the factory is
\* invoked in that call, whatever the transform would have returned.
C1_HitSuppressesTransform ==
    [][(/\ IsInvoke
        /\ CacheEnabled
        /\ Passes(call')
        /\ dirExists
        /\ PathOfCall(call') \in DOMAIN files
        /\ HooksReturned'
        /\ ErrOf("read")' # "EACCES")
       => (/\ ret' = Return(readFileSync(files[PathOfCall(call')], encoding))
           /\ ~Did("transform")'
           /\ ~Did("factory")'
           /\ count'.transform = count.transform
           /\ count'.factory = count.factory)]_vars

\* A hit on a file another process wrote, whose content is not what the
\* transform returns for the input.
C1_Witness ==
    /\ CacheEnabled
    /\ count.invoke > 0
    /\ ret.kind = "return"
    /\ Did("read") /\ ErrOf("read") = ""
    /\ PathOfCall(call) \in DOMAIN files
    /\ ret.val = readFileSync(files[PathOfCall(call)], encoding)
    /\ ret.val # append(call.input, encoding)
    /\ count.transform = 0

C3_Bypass ==
    [][(/\ IsInvoke
        /\ Truthy(opts.shouldTransform)
        /\ ~shouldTransformFn(call'.input, call'.metadata)
        /\ ErrOf("shouldTransform")' = "")
       => (/\ ret' = Return(call'.input)
           /\ log' = <<Ok("shouldTransform")>>
           /\ count'.makeDir = count.makeDir
           /\ count'.factory = count.factory
           /\ count'.transform = count.transform
           /\ UNCHANGED <<files, dirExists, created, transformFn, ownHash, populated>>)]_vars

\* A bypassed call in a cache-enabled wrapper whose cache holds a file for
\* that very input: the input comes back, not the cached value.
C3_Witness ==
    /\ CacheEnabled
    /\ Truthy(opts.shouldTransform)
    /\ ~shouldTransformFn(call.input, call.metadata)
    /\ log = <<Ok("shouldTransform")>>
    /\ ret = Return(call.input)
    /\ PathOfCall(call) \in DOMAIN files
    /\ readFileSync(files[PathOfCall(call)], encoding) # call.input

\* C4: with disableCache true every call that gets past the shouldTransform
\* check invokes the transform exactly once, so N such calls invoke it N
\* times (a call in which the factory raises has no transform to invoke and
\* is counted apart); the wrapper never creates the directory and never
\* reads or writes a file.
C4_DisabledCache ==
    (phase = "wrapped" /\ Truthy(opts.disableCache))
    => (/\ count.transform = count.passed - count.unrealized
        /\ count.unrealized > 0 => Truthy(opts.factory)
        /\ count.makeDir = 0
        /\ ~Did("makeDir") /\ ~Did("read") /\ ~Did("write")
        /\ ~Did("getOwnHash") /\ ~Did("hashData")
        /\ DOMAIN populated = {})

\* Three calls that each ran the transform, the cache directory of the
\* options still absent.
C4_Witness ==
    /\ phase = "wrapped"
    /\ Truthy(opts.disableCache)
    /\ opts.cacheDir.t = "string"
    /\ count.invoke = 3
    /\ count.passed = 3
    /\ count.transform = 3
    /\ ~dirExists

\* The options name a transform / a factory.
HasTransform(o) == o.transform # Undefined
HasFactory(o) == o.factory # Undefined

ChoiceMessage == "Specify factory or transform but not both"
CacheDirMessage == "cacheDir must be a string"

\* C5: wrap throws at once when the options name neither a transform nor a
\* factory and when they name both, and returns a wrapper when they name
\* exactly one and the cacheDir is valid; the error is never left to a call.
C5_TransformXorFactory ==
    /\ (phase # "none" /\ HasTransform(opts) = HasFactory(opts))
        => (phase = "threw" /\ wrapError = ChoiceMessage /\ count.invoke = 0)
    /\ (/\ phase # "none"
        /\ HasTransform(opts) # HasFactory(opts)
        /\ (opts.cacheDir.t = "string" \/ opts.disableCache = "true"))
        => (phase = "wrapped" /\ wrapError = "")
    /\ phase = "wrapped" => HasTransform(opts) # HasFactory(opts)
    /\ ret.err # ChoiceMessage

\* wrap has thrown for options that name both, with a valid cacheDir.
C5_Witness ==
    /\ phase = "threw"
    /\ wrapError = ChoiceMessage
    /\ HasTransform(opts) /\ HasFactory(opts)
    /\ opts.cacheDir.t = "string"

\* C6: wrap throws for a cacheDir that is not a string exactly when the
\* cache is enabled: it throws when disableCache is not set, and builds the
\* wrapper without any cacheDir when disableCache is true.
C6_CacheDirRequired ==
    (phase # "none" /\ HasTransform(opts) # HasFactory(opts))
    => (/\ (opts.cacheDir.t # "string" /\ opts.disableCache # "true")
            => (phase = "threw" /\ wrapError = CacheDirMessage)
        /\ (opts.cacheDir.t # "string" /\ opts.disableCache = "true")
            => (phase = "wrapped" /\ wrapError = "")
        /\ wrapError = CacheDirMessage
            => (opts.cacheDir.t # "string" /\ opts.disableCache # "true"))

\* A wrapper built without cacheDir, the cache disabled, that has served a call.
C6_Witness ==
    /\ phase = "wrapped"
    /\ opts.cacheDir.t = "undefined"
    /\ opts.disableCache = "true"
    /\ ret.kind = "return"
    /\ Did("transform")

\* C7 as claimed: every wrapper built with the cache enabled has a cacheDir
\* that is a non-empty string, the empty string being rejected by wrap.
C7_NonEmptyCacheDir ==
    (phase = "wrapped" /\ ~Truthy(opts.disableCache))
    => (opts.cacheDir.t = "string" /\ opts.cacheDir.v # <<>>)

\* C7, amended: every wrapper built with the cache enabled has a cacheDir
\* that is a string; wrap tests the type alone, so the empty string is
\* accepted like any other string.
C7_StringCacheDir ==
    /\ (phase = "wrapped" /\ ~Truthy(opts.disableCache)) => opts.cacheDir.t = "string"
    /\ (/\ phase # "none"
        /\ HasTransform(opts) # HasFactory(opts)
        /\ opts.cacheDir = Str(<<>>))
        => phase = "wrapped"

\* A cache-enabled wrapper built with the empty string as cacheDir, which
\* has served a miss and stored its result.
C7_Witness ==
    /\ phase = "wrapped"
    /\ ~Truthy(opts.disableCache)
    /\ opts.cacheDir = Str(<<>>)
    /\ ret.kind = "return"
    /\ Did("write") /\ ErrOf("write") = ""

\* C8 as claimed: over any sequence of calls on one wrapper, calls that end
\* in an error included, makeDir.sync is called at most once.
C8_MakeDirAtMostOnce == count.makeDir <= 1

\* C8, amended: a call attempts the directory creation at most once, and no
\* call attempts it once the wrapper is realized (created is set); a call in
\* which the creation or the factory raises leaves the wrapper unrealized,
\* so the next call that needs the transform attempts the creation again:
\* the attempts never exceed 1 + the number of such calls, and never exceed
\* 1 when neither raises.
C8_MakeDirOncePerRealization ==
    [][IsInvoke =>
        /\ count'.makeDir <= count.makeDir + 1
        /\ Times("makeDir")' = count'.makeDir - count.makeDir
        /\ created => count'.makeDir = count.makeDir
        /\ (Did("makeDir")' /\ ErrOf("makeDir")' = "" /\ ErrOf("factory")' = "") => created'
        /\ count'.makeDir <= 1 + count'.unrealized]_vars

\* Two misses after a call in which the factory raised: the directory
\* creation ran in the failed call and in the next one, and not in the third.
C8_Witness ==
    /\ phase = "wrapped"
    /\ created
    /\ count.invoke = 3
    /\ count.transform = 2
    /\ count.unrealized = 1
    /\ count.makeDir = 2
    /\ Did("transform") /\ ~Did("makeDir")

\* C9 as claimed: over any sequence of calls on one wrapper, calls that end
\* in an error included, the factory is called at most once.
C9_FactoryAtMostOnce == count.factory <= 1

\* C9, amended: the factory is called with cacheDir as its only argument, at
\* most once per call and never once the wrapper is realized; a factory call
\* that returns realizes the wrapper and its result is the transform of all
\* later calls. A factory call that raises leaves the wrapper unrealized and
\* the next call that needs the transform calls the factory again, so the
\* factory calls never exceed 1 + the number of calls in which it raised.
C9_FactoryOncePerRealization ==
    [][IsInvoke =>
        /\ count'.factory <= count.factory + 1
        /\ Times("factory")' = count'.factory - count.factory
        /\ Did("factory")' => (seen'.factoryArg = opts.cacheDir /\ HasFactory(opts))
        /\ created => (count'.factory = count.factory /\ transformFn' = transformFn)
        /\ (Did("factory")' /\ ErrOf("factory")' = "")
            => (created' /\ transformFn' = "append")
        /\ (Did("factory")' /\ ErrOf("factory")' # "")
            => (~created' /\ transformFn' = Undefined /\ ~Did("transform")')
        /\ count'.factory <= 1 + count'.unrealized]_vars

\* The factory raised in the first call, returned in the second, and the
\* third call ran the transform it built without calling it again.
C9_Witness ==
    /\ phase = "wrapped"
    /\ HasFactory(opts)
    /\ created
    /\ transformFn = "append"
    /\ count.invoke = 3
    /\ count.factory = 2
    /\ count.unrealized = 1
    /\ count.transform = 2
    /\ Did("transform") /\ ~Did("factory")
    /\ ret.kind = "return"

\* The call of this step needs the transform: it gets past the
\* shouldTransform check and its hooks, and either the cache is disabled or
\* the read fails (no file at the path before the call, or a refused read).
NeedsTransform ==
    /\ Passes(call')
    /\ HooksReturned'
    /\ \/ Truthy(opts.disableCache)
       \/ ~dirExists
       \/ PathOfCall(call') \notin DOMAIN files
       \/ ErrOf("read")' = "EACCES"

\* C10: wrap creates no directory and calls no factory; a call that ends as
\* a bypass or as a cache hit (or in a hook's error) does neither and leaves
\* the realization state as it was; the first call that needs the transform
\* is the one that creates the directory (createCacheDir not false, cache
\* enabled) and, the creation having succeeded, calls the factory.
C10_LazyRealization ==
    [][/\ (phase = "none" /\ phase' = "wrapped")
            => (/\ UNCHANGED <<dirExists, files, count, log>>
                /\ count.makeDir = 0 /\ count.factory = 0
                /\ transformFn' = opts'.transform)
       /\ (IsInvoke /\ ~NeedsTransform)
            => (/\ ~Did("makeDir")' /\ ~Did("factory")' /\ ~Did("transform")'
                /\ count'.makeDir = count.makeDir
                /\ count'.factory = count.factory
                /\ UNCHANGED <<created, transformFn, dirExists>>)
       /\ (IsInvoke /\ NeedsTransform /\ count.transform = 0 /\ count.unrealized = 0)
            => (/\ (~cacheDirCreated /\ ~Truthy(opts.disableCache))
                    => (Did("makeDir")' /\ count.makeDir = 0)
                /\ (HasFactory(opts) /\ ErrOf("makeDir")' = "")
                    => (Did("factory")' /\ count.factory = 0))]_vars

\* A factory wrapper that served a bypass and a hit without being realized,
\* then realized itself in its first miss.
C10_Witness ==
    /\ CacheEnabled
    /\ HasFactory(opts)
    /\ opts.createCacheDir # "false"
    /\ count.invoke = 3
    /\ count.passed = 2
    /\ count.makeDir = 1
    /\ count.factory = 1
    /\ count.transform = 1
    /\ Did("makeDir") /\ Did("factory") /\ Did("transform")
    /\ created

\* C11: with createCacheDir false the wrapper never attempts to create the
\* cache directory: over any sequence of calls, with a direct transform or a
\* factory, returning or raising, the number of makeDir.sync calls is 0.
C11_NeverCreatesDir ==
    (phase = "wrapped" /\ opts.createCacheDir = "false")
    => (count.makeDir = 0 /\ ~Did("makeDir"))

\* A cache-enabled factory wrapper with createCacheDir false after three
\* calls: the factory raised in one, the transform ran in the two others.
C11_Witness ==
    /\ CacheEnabled
    /\ opts.createCacheDir = "false"
    /\ HasFactory(opts)
    /\ count.invoke = 3
    /\ count.unrealized = 1
    /\ count.factory = 2
    /\ count.transform = 2
    /\ count.makeDir = 0

\* The call of this step gets to the transform and the transform returns:
\* it passes the shouldTransform check, and no hook, factory or transform
\* raises.
TransformReturns ==
    /\ Passes(call')
    /\ HooksReturned'
    /\ ErrOf("factory")' = ""
    /\ ErrOf("transform")' = ""

\* C12: with createCacheDir false and the cache enabled, a call made while
\* the cache directory is absent ends in the ENOENT error of the persist and
\* leaves the directory absent; a call made once the directory exists, with
\* no file at its path and the write not refused, returns the transform's
\* result and persists it; and the wrapper has never created the directory.
C12_AbsentDirNotFound ==
    [][(/\ IsInvoke
        /\ CacheEnabled
        /\ opts.createCacheDir = "false"
        /\ TransformReturns)
       => (/\ ~dirExists
              => (/\ ret' = Throw("ENOENT")
                  /\ ErrOf("read")' = "ENOENT"
                  /\ ErrOf("write")' = "ENOENT"
                  /\ UNCHANGED <<dirExists, files>>)
           /\ (/\ dirExists
               /\ PathOfCall(call') \notin DOMAIN files
               /\ ErrOf("write")' # "EACCES")
              => (/\ ret' = Return(append(call'.input, encoding))
                  /\ PathOfCall(call') \in DOMAIN files'
                  /\ files'[PathOfCall(call')] = writeFileBytes(ret'.val, encoding))
           /\ count'.makeDir = 0)]_vars

\* The second call for an input, the first having ended in ENOENT with the
\* directory absent: the directory now exists, the result is returned and
\* stored, and no makeDir.sync call was made.
C12_Witness ==
    /\ CacheEnabled
    /\ opts.createCacheDir = "false"
    /\ count.invoke = 2
    /\ count.notFound = 1
    /\ count.transform = 2
    /\ count.makeDir = 0
    /\ dirExists
    /\ ret = Return(append(call.input, encoding))
    /\ PathOfCall(call) \in DOMAIN populated
    /\ DOMAIN files = {PathOfCall(call)}

\* The chunks a hashData output adds to the key: the elements of a sequence
\* in order, a single value as one chunk.
AuxChunks(aux) == IF aux.t = "array" THEN aux.v ELSE <<aux>>

\* The key of the chunk sequence own fingerprint, input, salt, hashData output.
ChunkKey(input, salt, aux) == hasha(<<PKG_HASH, input, salt>> \o AuxChunks(aux))

\* The file of name n in the cache directory.
InCacheDir(n) == opts.cacheDir.v \o <<47>> \o n

\* C13: the key every call derives is the digest of the chunk sequence own
\* fingerprint, input, salt, then the hashData output (its elements in order
\* when it is a sequence, itself as one chunk when it is a single value,
\* nothing for the default), and the name of the call's cache file is this
\* key followed by the extension.
C13_KeyOfChunks ==
    \A i \in DOMAIN hashes :
        /\ hashes[i].hash = ChunkKey(hashes[i].input, hashes[i].salt, hashes[i].aux)
        /\ hashes[i].path = InCacheDir(hashes[i].hash.v \o hashes[i].ext.v)

\* A call of a wrapper with a salt and a single-valued hashData, and a call
\* of a wrapper whose hashData returns a sequence of two, have derived the
\* keys of four and of five chunks and stored their results under them.
C13_Witness ==
    /\ Len(hashes) = 2
    /\ hashes[1].salt.v # <<>>
    /\ hashes[1].aux.t = "string"
    /\ hashes[1].hash = hasha(<<PKG_HASH, hashes[1].input, hashes[1].salt, hashes[1].aux>>)
    /\ hashes[2].aux.t = "array"
    /\ Len(hashes[2].aux.v) = 2
    /\ hashes[2].hash = hasha(<<PKG_HASH, hashes[2].input, hashes[2].salt,
                                hashes[2].aux.v[1], hashes[2].aux.v[2]>>)
    /\ {hashes[1].path, hashes[2].path} \subseteq DOMAIN files

\* C14: two key derivations with identical input, salt and hashData output
\* yield identical keys, and with identical extensions identical paths, in
\* whichever wrapper and at whatever point of the call sequence they are
\* made: before and after the own fingerprint is memoized, whatever the
\* cache holds.
C14_KeyDeterminism ==
    \A i, j \in DOMAIN hashes :
        (/\ hashes[i].input = hashes[j].input
         /\ hashes[i].salt = hashes[j].salt
         /\ hashes[i].aux = hashes[j].aux)
        => (/\ hashes[i].hash = hashes[j].hash
            /\ hashes[i].ext = hashes[j].ext => hashes[i].path = hashes[j].path)

\* Two wrappers with different extensions have each derived the key of the
\* same input, salt and hashData output, the first with an empty cache and
\* no memoized own fingerprint, the second after them: the keys are equal.
C14_Witness ==
    /\ Len(hashes) = 2
    /\ count.rewrap = 1
    /\ hashes[1].input = hashes[2].input
    /\ hashes[1].salt = hashes[2].salt
    /\ hashes[1].aux = hashes[2].aux
    /\ hashes[1].ext # hashes[2].ext
    /\ hashes[1].hash = hashes[2].hash
    /\ hashes[1].path # hashes[2].path
    /\ DOMAIN files = {hashes[1].path, hashes[2].path}

\* Exactly one of input, salt and hashData output differs between two
\* recorded derivations.
OneDiffers(h, g) ==
    Cardinality({k \in {"input", "salt", "aux"} : h[k] # g[k]}) = 1

\* C15 as claimed: two key derivations that differ in exactly one of input,
\* salt and hashData output yield different keys; in particular a
\* derivation with the default (empty) hashData output never has the key
\* of one with any other hashData output for the same input and salt.
C15_KeySensitivity ==
    \A i, j \in DOMAIN hashes :
        OneDiffers(hashes[i], hashes[j]) => hashes[i].hash # hashes[j].hash

\* C16 as claimed: when a filenamePrefix function is configured, the file a
\* call looks up and writes on a miss is cacheDir / (filenamePrefix(metadata)
\* + key + ext).
C16_PrefixedFileName ==
    [][(IsInvoke /\ Truthy(opts.filenamePrefix) /\ Did("read")')
       => seen'.path = InCacheDir(filenamePrefixFn(opts.filenamePrefix, call'.metadata)
                                    \o seen'.key.v \o opts.ext.v)]_vars

\* The path of a call's key with the extension, and without it.
ExtPath(c) == InCacheDir(KeyOf(c.input, c.metadata).v \o opts.ext.v)
BarePath(c) == InCacheDir(KeyOf(c.input, c.metadata).v)

\* C17: the file a call reads is cacheDir / (key + ext), ext being empty by
\* default, and a miss whose write succeeds stores the result there; with a
\* non-empty ext the file cacheDir / key is neither read (the call is a hit
\* exactly when the file with the extension exists) nor written.
C17_ExtInFileName ==
    [][(IsInvoke /\ CacheEnabled /\ Passes(call') /\ HooksReturned')
       => (/\ seen'.path = ExtPath(call')
           /\ Did("transform")' = (ExtPath(call') \notin DOMAIN files)
           /\ ExtPath(call') \in DOMAIN files
                => ret' = Return(readFileSync(files[ExtPath(call')], encoding))
           /\ (Did("write")' /\ ErrOf("write")' = "")
                => (/\ ExtPath(call') \in DOMAIN files'
                    /\ files'[ExtPath(call')] = writeFileBytes(ret'.val, encoding)
                    /\ DOMAIN files' = DOMAIN files \cup {ExtPath(call')})
           /\ opts.ext.v # <<>>
                => (/\ (BarePath(call') \in DOMAIN files) = (BarePath(call') \in DOMAIN files')
                    /\ BarePath(call') \in DOMAIN files
                         => files'[BarePath(call')] = files[BarePath(call')]))]_vars

\* A wrapper with an extension has missed and stored its result for an input
\* whose file without the extension was in the cache, written by an earlier
\* wrapper that has none.
C17_Witness ==
    /\ phase = "wrapped"
    /\ count.rewrap = 1
    /\ opts.ext.v # <<>>
    /\ Len(hashes) = 2
    /\ hashes[1].ext.v = <<>>
    /\ hashes[2].ext = opts.ext
    /\ hashes[2].hash = hashes[1].hash
    /\ Did("transform")
    /\ Did("write") /\ ErrOf("write") = ""
    /\ DOMAIN files = {hashes[1].path, hashes[2].path}
    /\ hashes[2].path = hashes[1].path \o opts.ext.v

\* The place of operation op in the last call's log, 0 if it did not occur.
At(op) == IF Did(op) THEN CHOOSE i \in DOMAIN log : log[i].op = op ELSE 0

\* C18: in every cache-enabled call that passes the shouldTransform check,
\* with onHash configured (and hashData returning), onHash is called exactly
\* once, with the call's input and metadata and the key that names the
\* call's cache file; the call is made after the key derivation and before
\* the read, the directory creation, the transform and the write, none of
\* which happens when onHash raises.
C18_OnHashOrder ==
    [][(/\ IsInvoke
        /\ CacheEnabled
        /\ Passes(call')
        /\ Truthy(opts.onHash)
        /\ ErrOf("shouldTransform")' = ""
        /\ ErrOf("hashData")' = "")
       => (/\ Times("onHash")' = 1
           /\ seen'.onHashInput = call'.input
           /\ seen'.onHashMetadata = call'.metadata
           /\ seen'.onHash = ChunkKey(call'.input, opts.salt, seen'.aux)
           /\ seen'.path = InCacheDir(seen'.onHash.v \o opts.ext.v)
           /\ At("hashData")' < At("onHash")'
           /\ \A op \in {"read", "makeDir", "factory", "transform", "write"} :
                 Did(op)' => (At("onHash")' < At(op)' /\ ErrOf("onHash")' = "")
           /\ ErrOf("onHash")' = "" => Did("read")')]_vars

\* A miss with onHash configured: onHash was called once, with the key of
\* the file the call then read, created the directory for, and wrote.
C18_Witness ==
    /\ Len(hashes) = 1
    /\ Times("onHash") = 1
    /\ seen.onHash = hashes[1].hash
    /\ seen.path = hashes[1].path
    /\ At("onHash") < At("read")
    /\ At("read") < At("makeDir")
    /\ At("makeDir") < At("transform")
    /\ At("transform") < At("write")
    /\ seen.path \in DOMAIN files

\* C19: on a miss of a cache-enabled wrapper the transform is called with
\* the caller's input and metadata, unchanged, and with the key that names
\* the call's cache file and that onHash was given.
C19_TransformArgs ==
    [][(IsInvoke /\ CacheEnabled /\ Did("transform")')
       => (/\ seen'.input = call'.input
           /\ seen'.metadata = call'.metadata
           /\ seen'.hash = ChunkKey(call'.input, opts.salt, seen'.aux)
           /\ seen'.path = InCacheDir(seen'.hash.v \o opts.ext.v)
           /\ Truthy(opts.onHash) => seen'.hash = seen'.onHash)]_vars

\* A miss of a wrapper with a salt, a hashData and an onHash: the transform
\* received the input, the metadata and the key onHash received, and the
\* result is stored in the file of that key.
C19_Witness ==
    /\ phase = "wrapped"
    /\ count.rewrap = 0
    /\ opts.salt.v # <<>>
    /\ Truthy(opts.hashData)
    /\ Did("transform") /\ Did("write")
    /\ ret.kind = "return"
    /\ seen.input = call.input
    /\ seen.metadata = call.metadata
    /\ seen.hash = seen.onHash
    /\ seen.hash = ChunkKey(call.input, opts.salt, seen.aux)
    /\ InCacheDir(seen.hash.v \o opts.ext.v) \in DOMAIN files

\* C20 as claimed: a persist that fails because the cache directory is
\* missing is attempted again, up to 3 more times; the directory staying
\* missing for the whole call, the call that raises the persist's ENOENT has
\* made 1 + 3 persist attempts.
C20_PersistRetried ==
    (phase = "wrapped" /\ ret.err = "ENOENT" /\ ErrOf("write") = "ENOENT")
    => Times("write") = 1 + 3

\* C21: a call invokes the transform at most once, whatever happens to the
\* write: the wrapper's count of transform invocations grows by what the
\* call's log shows, a call that reaches the write has invoked the transform
\* exactly once and before the write, and a successful write stores the
\* result of that one invocation.
C21_TransformAtMostOnce ==
    [][IsInvoke =>
        /\ Times("transform")' <= 1
        /\ count'.transform = count.transform + Times("transform")'
        /\ Did("write")' =>
              /\ Times("transform")' = 1
              /\ ErrOf("transform")' = ""
              /\ At("transform")' < At("write")'
        /\ (Did("write")' /\ ErrOf("write")' = "") =>
              files'[PathOfCall(call')] = writeFileBytes(append(call'.input, encoding), encoding)]_vars

\* Two calls in a row whose write failed for the missing directory: each
\* invoked the transform once.
C21_Witness ==
    /\ phase = "wrapped"
    /\ count.invoke = 2
    /\ count.transform = 2
    /\ count.notFound = 2
    /\ ErrOf("write") = "ENOENT"
    /\ Times("transform") = 1

\* C22: every call ends, by returning or by raising, after at most one read
\* of the cache, at most one creation of the directory, at most one call of
\* the factory, at most one invocation of the transform and at most 1 + 3
\* attempts of the write; the error of a failed write is the error the call
\* raises.
C22_BoundedCall ==
    [][IsInvoke =>
        /\ ret'.kind \in {"return", "throw"}
        /\ Times("read")' <= 1
        /\ Times("makeDir")' <= 1
        /\ Times("factory")' <= 1
        /\ Times("transform")' <= 1
        /\ Times("write")' <= 1 + 3
        /\ Len(log') <= 9
        /\ ErrOf("write")' # "" => ret' = Throw(ErrOf("write")')]_vars

\* A call that read, missed, invoked the transform and raised the error of
\* its write.
C22_Witness ==
    /\ phase = "wrapped"
    /\ Times("read") = 1
    /\ ErrOf("read") = "ENOENT"
    /\ Times("transform") = 1
    /\ Times("write") = 1
    /\ ErrOf("write") # ""
    /\ ret = Throw(ErrOf("write"))

\* C23: a write that fails with a permission error is raised by the same
\* call after that one attempt, and the call leaves the cache as it found
\* it: no file stands at the call's path unless one stood there before.
C23_PersistErrorSurfaces ==
    [][(IsInvoke /\ ErrOf("write")' = "EACCES") =>
        /\ ret' = Throw("EACCES")
        /\ Times("write")' = 1
        /\ Times("read")' = 1
        /\ files' = files
        /\ ErrOf("read")' = "ENOENT" => PathOfCall(call') \notin DOMAIN files']_vars

\* A miss in an existing directory whose write was refused: the call raised
\* the refusal and the path has no file.
C23_Witness ==
    /\ CacheEnabled
    /\ dirExists
    /\ ErrOf("read") = "ENOENT"
    /\ Did("transform")
    /\ ErrOf("write") = "EACCES"
    /\ ret = Throw("EACCES")
    /\ PathOfCall(call) \notin DOMAIN files

\* C24 as claimed: a call in which the read or the write of the cache met a
\* permission error raises.
C24_NoSilentDegradation ==
    (phase = "wrapped" /\ (ErrOf("read") = "EACCES" \/ ErrOf("write") = "EACCES"))
    => ret.kind = "throw"

\* C24: a permission error of the write is raised by the call; a permission
\* error of the read is handled as a miss: the transform is invoked, and
\* when nothing after the read fails the result is written over the file and
\* returned.
C24_ReadErrorIsMiss ==
    [][IsInvoke =>
        /\ ErrOf("write")' = "EACCES" => ret' = Throw("EACCES")
        /\ ErrOf("read")' = "EACCES" =>
              /\ Did("makeDir")' \/ Did("factory")' \/ Did("transform")'
              /\ ret'.kind = "throw" => ret'.err # "EACCES"
              /\ ret'.kind = "return" =>
                    /\ ret' = Return(append(call'.input, encoding))
                    /\ Did("transform")' /\ ErrOf("write")' = "" /\ Did("write")'
                    /\ files'[PathOfCall(call')] = writeFileBytes(ret'.val, encoding)]_vars

\* A call whose read of an existing file was refused returned the fresh
\* result and replaced the file another program had put there.
C24_Witness ==
    /\ CacheEnabled
    /\ ErrOf("read") = "EACCES"
    /\ Did("transform")
    /\ ErrOf("write") = ""
    /\ ret = Return(append(call.input, encoding))
    /\ count.invoke = 1
    /\ PathOfCall(call) \in DOMAIN files
    /\ \A q \in DOMAIN files : q # PathOfCall(call) => files[q] \in ExtContents

\* C25: an error of the transform is the error the call raises; the write is
\* not attempted and the files are left as they were, so a later call with
\* the same input misses again when the path had no file: after the failed call
\* the path still has none.
C25_TransformErrorPropagates ==
    [][(IsInvoke /\ ErrOf("transform")' # "") =>
        /\ ret' = Throw(ErrOf("transform")')
        /\ Times("transform")' = 1
        /\ ~Did("write")'
        /\ files' = files
        /\ (CacheEnabled /\ ErrOf("read")' = "ENOENT") =>
              ~dirExists' \/ PathOfCall(call') \notin DOMAIN files']_vars

\* The second of two calls whose transform raised, in a directory the first
\* one created: the transform was invoked in both and the cache is empty.
C25_Witness ==
    /\ CacheEnabled
    /\ dirExists
    /\ count.makeDir = 1
    /\ count.invoke = 2
    /\ count.transform = 2
    /\ ~Did("makeDir")
    /\ ErrOf("read") = "ENOENT"
    /\ ret = Throw("TransformError")
    /\ DOMAIN files = {}

\* C27: with the cache enabled and createCacheDir not false, an error of the
\* directory creation is the error the call raises; the creation is tried
\* once in the call, neither the factory nor the transform is invoked,
\* nothing is written, and the wrapper stays unrealized.
C27_MakeDirFatal ==
    [][(IsInvoke /\ ErrOf("makeDir")' # "") =>
        /\ CacheEnabled /\ ~cacheDirCreated
        /\ ret' = Throw(ErrOf("makeDir")')
        /\ Times("makeDir")' = 1
        /\ ~Did("factory")' /\ ~Did("transform")' /\ ~Did("write")'
        /\ count'.factory = count.factory /\ count'.transform = count.transform
        /\ files' = files /\ dirExists' = dirExists
        /\ ~created /\ ~created' /\ transformFn' = transformFn]_vars

\* A wrapper made from a factory whose first call failed in the directory
\* creation: the call raised and the factory was never called.
C27_Witness ==
    /\ CacheEnabled
    /\ HasFactory(opts)
    /\ ErrOf("makeDir") = "EACCES"
    /\ ret = Throw("EACCES")
    /\ count.factory = 0
    /\ count.transform = 0
    /\ ~created
    /\ ~dirExists

\* The callbacks that run before the read, and the operations on the cache
\* and on the transform that follow them.
HookOps == {"shouldTransform", "hashData", "onHash"}
LaterOps == {"read", "makeDir", "factory", "transform", "write"}

HasMadeDir ==
    /\ CacheEnabled
    /\ ~cacheDirCreated
    /\ count.factory >= 1 \/ count.transform >= 1

\* C30 as claimed: once a wrapper has created its cache directory, a miss
\* made while the directory is gone does not create it again and raises the
\* ENOENT of the write.
C30_NeverRecreated ==
    [][(IsInvoke /\ HasMadeDir /\ ~dirExists /\ TransformReturns) =>
        /\ ~Did("makeDir")'
        /\ ret' = Throw("ENOENT")
        /\ ~dirExists']_vars

\* C30: once a wrapper is realized (created is set: the directory creation
\* and, for a factory, the factory have succeeded), a miss made while the
\* directory is gone does not create it again: the read fails, the transform
\* is invoked, the write raises ENOENT, which the call raises, and the
\* directory stays absent. A wrapper that created the directory but is not
\* realized creates it again in its next miss.
C30_RealizedNeverRecreates ==
    [][(IsInvoke /\ CacheEnabled /\ ~dirExists /\ TransformReturns) =>
        /\ created =>
              /\ ~Did("makeDir")'
              /\ ErrOf("read")' = "ENOENT"
              /\ Times("transform")' = 1
              /\ ErrOf("write")' = "ENOENT"
              /\ ret' = Throw("ENOENT")
              /\ ~dirExists'
              /\ files' = files
        /\ (~created /\ ~cacheDirCreated) =>
              /\ Times("makeDir")' = 1
              /\ ErrOf("makeDir")' = "" => dirExists']_vars

\* A wrapper that created its directory in its first miss and, the directory
\* having been removed, raised ENOENT from the write of its second miss
\* without creating anything.
C30_Witness ==
    /\ CacheEnabled
    /\ ~cacheDirCreated
    /\ created
    /\ count.makeDir = 1
    /\ count.transform = 2
    /\ ~Did("makeDir")
    /\ Did("transform")
    /\ ErrOf("write") = "ENOENT"
    /\ ret = Throw("ENOENT")
    /\ ~dirExists

\* The last call read the cache file: a hit.
Hit == Did("read") /\ ErrOf("read") = ""

\* The encoding reads value v back as it was written: a Buffer when the
\* encoding is undefined ('buffer'), under 'hex' a string of an even number
\* of lower-case hexadecimal digits, under utf8 a string without surrogates.
ReadsBack(v, enc) ==
    IF enc = Undefined THEN v.t = "buffer"
    ELSE IF enc = "hex"
    THEN /\ v.t = "string"
         /\ Len(v.v) % 2 = 0
         /\ \A i \in DOMAIN v.v : v.v[i] \in (48..57) \cup (97..102)
    ELSE /\ v.t = "string"
         /\ \A i \in DOMAIN v.v : v.v[i] < 55296 \/ v.v[i] > 57343

\* C28 as claimed: under every encoding the value a hit returns is the value
\* the miss that wrote the file returned.
C28_RoundTrip ==
    [][(IsInvoke /\ Hit' /\ PathOfCall(call') \in DOMAIN populated) =>
        ret'.val = populated[PathOfCall(call')]]_vars

\* C28: the write uses the encoding of the read. A miss returns what the
\* transform returned and stores it encoded; a hit returns the stored bytes
\* decoded with the same encoding, which is the value the miss returned
\* exactly when the encoding reads that value back (a Buffer under 'buffer',
\* canonical hexadecimal text under 'hex').
C28_EncodingRoundTrip ==
    [][IsInvoke =>
        /\ (Did("write")' /\ ErrOf("write")' = "") =>
              /\ ret'.val = applyTransformFn(transformFn', call'.input, encoding)
              /\ files'[PathOfCall(call')] = writeFileBytes(ret'.val, encoding)
        /\ (Hit' /\ PathOfCall(call') \in DOMAIN populated) =>
              /\ files[PathOfCall(call')] = writeFileBytes(populated[PathOfCall(call')], encoding)
              /\ ret'.val = readFileSync(files[PathOfCall(call')], encoding)
              /\ ReadsBack(populated[PathOfCall(call')], encoding)
                    <=> ret'.val = populated[PathOfCall(call')]
              /\ ReadsBack(populated[PathOfCall(call')], encoding)
                    => ret'.val = applyTransformFn(transformFn, call'.input, encoding)]_vars

\* A hit under 'hex' on a file a miss wrote from hexadecimal text: the hit
\* returns the text the miss returned.
C28_Witness ==
    /\ CacheEnabled
    /\ opts.encoding = "hex"
    /\ transformFn = "append"
    /\ Hit
    /\ PathOfCall(call) \in DOMAIN populated
    /\ ReadsBack(populated[PathOfCall(call)], encoding)
    /\ ret = Return(populated[PathOfCall(call)])
    /\ files[PathOfCall(call)] = writeFileBytes(ret.val, encoding)
    /\ Len(ret.val.v) = 2 * Len(files[PathOfCall(call)])

\* The complete result for an input, and the bytes of its cache file.
RaceResult(input) == applyTransformFn(opts.transform, input, encoding)
RaceBytes(input) == writeFileBytes(RaceResult(input), encoding)

C31_NoKeyWhenDisabled ==
    [][(IsInvoke /\ Truthy(opts.disableCache)) =>
        /\ ~Did("getOwnHash")' /\ ~Did("hashData")' /\ ~Did("onHash")'
        /\ ~Did("read")' /\ ~Did("makeDir")' /\ ~Did("write")'
        /\ ownHash' = ownHash
        /\ hashes' = hashes
        /\ seen'.key = NoValue /\ seen'.onHash = NoValue /\ seen'.path = <<>>
        /\ files' = files /\ dirExists' = dirExists
        /\ Did("transform")' =>
              /\ seen'.input = call'.input
              /\ seen'.metadata = call'.metadata
              /\ seen'.hash = NoValue]_vars

\* A wrapper with the cache disabled and with hashData and onHash configured
\* has invoked its transform and returned the result: the own hash is still
\* empty and the transform received no hash.
C31_Witness ==
    /\ phase = "wrapped"
    /\ Truthy(opts.disableCache)
    /\ Truthy(opts.hashData) /\ Truthy(opts.onHash)
    /\ Did("transform")
    /\ ret = Return(append(call.input, encoding))
    /\ ownHash = Str(<<>>)
    /\ hashes = <<>>
    /\ seen.input = call.input
    /\ seen.metadata = call.metadata
    /\ seen.hash = NoValue

\* C32: with the default hashData the metadata has no part in the key: a
\* call's cache path is the path of its input under every metadata, and a
\* call that follows a miss which wrote the result of the same input under
\* another metadata, the file still being there, is a hit: it returns what
\* that call returned and does not invoke the transform.
C32_MetadataNotInKey ==
    [][(IsInvoke /\ CacheEnabled /\ ~Truthy(opts.hashData)
            /\ Passes(call') /\ HooksReturned') =>
        /\ \A m \in Metas : PathOf(call'.input, m) = seen'.path
        /\ (/\ call.input = call'.input
            /\ call.metadata # call'.metadata
            /\ log # <<>>
            /\ log[Len(log)] = Ok("write")
            /\ seen.path \in DOMAIN files) =>
              /\ Hit'
              /\ ret' = ret
              /\ ret' = Return(populated[seen'.path])
              /\ ~Did("transform")'
              /\ count'.transform = count.transform
              /\ files' = files]_vars

\* Two calls with one input and two metadata, recorded by onHash with the
\* same key and path: the first invoked the transform, the second was a hit
\* that returned the first one's result.
C32_Witness ==
    /\ CacheEnabled
    /\ ~Truthy(opts.hashData)
    /\ ~Truthy(opts.shouldTransform)
    /\ Len(hashes) = 2
    /\ hashes[1].input = hashes[2].input
    /\ hashes[1].metadata # hashes[2].metadata
    /\ hashes[1].hash = hashes[2].hash
    /\ hashes[1].path = hashes[2].path
    /\ count.transform = 1
    /\ Hit
    /\ ret = Return(append(call.input, encoding))
    /\ ret = Return(populated[hashes[1].path])

\* C33: a call changes the cache directory by at most the file of its own
\* key. No file disappears; every file at another path keeps its content;
\* the only path that may be new is the call's; a hit writes nothing and
\* leaves the files as they are; a bypassed or cache-disabled call too.
C33_InvokeFrame ==
    [][IsInvoke =>
        /\ DOMAIN files \subseteq DOMAIN files'
        /\ \A q \in DOMAIN files' \ DOMAIN files :
              CacheEnabled /\ q = PathOfCall(call') /\ Did("write")'
        /\ \A q \in DOMAIN files :
              (~CacheEnabled \/ q # PathOfCall(call')) => files'[q] = files[q]
        /\ Hit' => (files' = files /\ ~Did("write")')
        /\ ~Did("write")' => files' = files]_vars

\* The second miss of a wrapper: it created the file of its key next to the
\* file the first miss wrote, which kept its content.
C33_Witness ==
    /\ CacheEnabled
    /\ Cardinality(DOMAIN files) = 2
    /\ DOMAIN populated = DOMAIN files
    /\ count.transform = 2
    /\ Did("write") /\ ErrOf("write") = ""
    /\ \A q \in DOMAIN files : files[q] = writeFileBytes(populated[q], encoding)
    /\ \E q \in DOMAIN files : q # PathOfCall(call)

\* C34: nothing is remembered between calls: a call that finds a file at
\* its path reads it, once, and returns the file's content of that moment,
\* decoded; when the file was replaced after an earlier call returned a value
\* for the same input, the call returns the new content and not that value.
C34_HitReadsFile ==
    [][(IsInvoke /\ CacheEnabled /\ Passes(call') /\ HooksReturned'
            /\ dirExists /\ PathOfCall(call') \in DOMAIN files
            /\ ErrOf("read")' # "EACCES") =>
        /\ Times("read")' = 1
        /\ ~Did("transform")'
        /\ ret' = Return(readFileSync(files[PathOfCall(call')], encoding))
        /\ (/\ ret.kind = "return"
            /\ call.input = call'.input
            /\ ret.val # readFileSync(files[PathOfCall(call')], encoding))
           => ret'.val # ret.val]_vars

\* A wrapper whose miss wrote a file, the file having been replaced from
\* outside: the next call for the input returned the replaced content.
C34_Witness ==
    /\ CacheEnabled
    /\ count.transform = 1
    /\ count.invoke >= 2
    /\ Hit
    /\ files[PathOfCall(call)] \in ExtContents
    /\ ret = Return(readFileSync(files[PathOfCall(call)], encoding))
    /\ ret.val # append(call.input, encoding)
    /\ DOMAIN files = {PathOfCall(call)}

\* The call fails nowhere after the read.
NoLaterError ==
    /\ ErrOf("makeDir") = "" /\ ErrOf("factory") = ""
    /\ ErrOf("transform") = "" /\ ErrOf("write") = ""

\* C35: deleting a cache file from outside invalidates the entry. When the
\* last call returned a value for an input through the cache and the file of
\* that input is gone while the directory exists, the next call for the
\* input misses, invokes the transform once more, returns its result and
\* writes the file again (nothing in the call failing after the read).
C35_DeletionInvalidates ==
    [][(/\ IsInvoke /\ CacheEnabled
        /\ Passes(call) /\ ret.kind = "return" /\ count.invoke > 0
        /\ call.input = call'.input
        /\ Passes(call') /\ HooksReturned'
        /\ dirExists /\ PathOfCall(call') \notin DOMAIN files
        /\ NoLaterError') =>
        /\ ErrOf("read")' = "ENOENT"
        /\ Times("transform")' = 1
        /\ count'.transform = count.transform + 1
        /\ ret' = Return(append(call'.input, encoding))
        /\ Did("write")'
        /\ PathOfCall(call') \in DOMAIN files'
        /\ files'[PathOfCall(call')] = writeFileBytes(ret'.val, encoding)]_vars

\* Two calls for one input, both recorded by onHash with the same path, in
\* a directory the first one created: the first wrote the file, the file was
\* deleted, and the second invoked the transform again, returned its result
\* and wrote the file again.
C35_Witness ==
    /\ CacheEnabled
    /\ ~cacheDirCreated
    /\ count.makeDir = 1
    /\ count.invoke = 2
    /\ Len(hashes) = 2
    /\ hashes[1].input = hashes[2].input
    /\ hashes[1].path = hashes[2].path
    /\ count.transform = 2
    /\ ErrOf("read") = "ENOENT"
    /\ Did("write") /\ ErrOf("write") = ""
    /\ ret = Return(append(call.input, encoding))
    /\ DOMAIN files = {hashes[2].path}
    /\ files[hashes[2].path] = writeFileBytes(ret.val, encoding)

\* C36: in a cache-enabled wrapper with createCacheDir not false, a call in
\* which the factory is called has first created the directory, with
\* success, so the directory the factory is given exists; and a call in which
\* a factory-made transform is first invoked has the factory's return before
\* it: the order in the call is makeDir, factory, transform.
C36_RealizationOrder ==
    [][(IsInvoke /\ CacheEnabled /\ ~cacheDirCreated) =>
        /\ Did("factory")' =>
              /\ Times("makeDir")' = 1
              /\ ErrOf("makeDir")' = ""
              /\ At("makeDir")' < At("factory")'
              /\ dirExists'
              /\ seen'.factoryArg = opts.cacheDir
              /\ ~created
        /\ (Did("factory")' /\ Did("transform")') =>
              /\ ErrOf("factory")' = ""
              /\ At("factory")' < At("transform")'
              /\ created'
        /\ (Did("makeDir")' /\ Did("transform")') =>
              At("makeDir")' < At("transform")']_vars

\* The first miss of a wrapper made from a factory: the directory was
\* created, then the factory was called with it, then the transform ran.
C36_Witness ==
    /\ CacheEnabled
    /\ ~cacheDirCreated
    /\ HasFactory(opts)
    /\ count.factory = 1
    /\ Did("makeDir") /\ Did("factory") /\ Did("transform")
    /\ At("makeDir") < At("factory")
    /\ At("factory") < At("transform")
    /\ seen.factoryArg = opts.cacheDir
    /\ dirExists
    /\ created
    /\ ret.kind = "return"

\* C37: a realized wrapper stays realized: once created is set no step
\* unsets it, and the transform function the wrapper holds stays the same,
\* whether the calls that follow return or raise; and a realized wrapper
\* holds a transform function.
C37_RealizedForGood ==
    [][(phase = "wrapped" /\ created) =>
        /\ created'
        /\ transformFn' = transformFn
        /\ Truthy(transformFn)]_vars

\* A wrapper realized through its factory whose later call raised in the
\* transform: it is still realized, the factory was called once.
C37_Witness ==
    /\ phase = "wrapped"
    /\ HasFactory(opts)
    /\ created
    /\ transformFn = "append"
    /\ count.factory = 1
    /\ count.transform >= 2
    /\ ~Did("factory")
    /\ ret = Throw("TransformError")

\* C38: a call in which the directory creation or the factory raised leaves
\* the wrapper unrealized: created stays unset and transformFn is what it
\* was (none, for a factory). The next call that needs the transform, like
\* every such call of an unrealized wrapper, starts the realization again:
\* it creates the directory (cache enabled, createCacheDir not false) and,
\* that done, calls the factory when there is no transform function yet.
C38_FailedRealizationRetried ==
    [][IsInvoke =>
        /\ (ErrOf("makeDir")' # "" \/ ErrOf("factory")' # "") =>
              /\ ~created /\ ~created'
              /\ transformFn' = transformFn
              /\ HasFactory(opts) => ~Truthy(transformFn')
              /\ ~Did("transform")'
        /\ (~created /\ NeedsTransform) =>
              /\ (CacheEnabled /\ ~cacheDirCreated) => Times("makeDir")' = 1
              /\ (ErrOf("makeDir")' = "" /\ ~Truthy(transformFn)) => Times("factory")' = 1
              /\ (ErrOf("makeDir")' = "" /\ ErrOf("factory")' = "") =>
                    (created' /\ Did("transform")')]_vars

\* A wrapper made from a factory whose first realization failed and whose
\* second call realized it: the directory creation and the factory ran in
\* both calls.
C38_Witness ==
    /\ CacheEnabled
    /\ ~cacheDirCreated
    /\ HasFactory(opts)
    /\ count.invoke = 2
    /\ count.unrealized = 1
    /\ count.makeDir = 2
    /\ count.factory = 2
    /\ count.transform = 1
    /\ Did("makeDir") /\ Did("factory") /\ Did("transform")
    /\ created
    /\ ret.kind = "return"

\* C39: the result of a call whose write failed is lost. The call raises the
\* write's error after one invocation of the transform and changes no file,
\* so a path that had no file has none; and the call that follows it with the
\* same input, finding no file, invokes the transform again (its realization
\* not failing).
C39_PersistFailureLosesResult ==
    [][IsInvoke =>
        /\ ErrOf("write")' # "" =>
              /\ ret' = Throw(ErrOf("write")')
              /\ Times("transform")' = 1
              /\ count'.transform = count.transform + 1
              /\ files' = files
              /\ ErrOf("read")' = "ENOENT" =>
                    (~dirExists' \/ PathOfCall(call') \notin DOMAIN files')
        /\ (/\ ErrOf("write") # "" /\ count.invoke > 0
            /\ call.input = call'.input
            /\ ~dirExists \/ PathOfCall(call') \notin DOMAIN files
            /\ Passes(call') /\ HooksReturned'
            /\ ErrOf("makeDir")' = "" /\ ErrOf("factory")' = "") =>
              /\ ErrOf("read")' = "ENOENT"
              /\ Times("transform")' = 1
              /\ count'.transform = count.transform + 1]_vars

\* Two calls in an existing directory, the transform invoked in both, the
\* write of the second refused: the call raised and the cache is empty.
C39_Witness ==
    /\ CacheEnabled
    /\ dirExists
    /\ count.invoke = 2
    /\ count.transform = 2
    /\ count.notFound = 0
    /\ ErrOf("read") = "ENOENT"
    /\ ErrOf("write") = "EACCES"
    /\ ret = Throw("EACCES")
    /\ DOMAIN files = {}

\* The call of this step derives a key: the cache is enabled and the call
\* gets past the shouldTransform check.
DerivesKey == CacheEnabled /\ Passes(call') /\ ErrOf("shouldTransform")' = ""

\* C40: the module's own hash is computed lazily and once. Building a
\* wrapper does not compute it, nor does a bypassed or cache-disabled call;
\* it is computed in a call exactly when that call derives a key and the
\* module has no own hash yet; once set it never changes, and every key,
\* whichever wrapper derives it, is made from that value.
C40_OwnHashOnce ==
    [][/\ ~IsInvoke => ownHash' = ownHash
       /\ IsInvoke =>
            /\ Did("getOwnHash")' <=> (DerivesKey /\ ownHash = Str(<<>>))
            /\ Times("getOwnHash")' <= 1
            /\ Did("getOwnHash")' => ownHash' = PKG_HASH
            /\ ~Did("getOwnHash")' => ownHash' = ownHash
            /\ ownHash # Str(<<>>) => ownHash' = ownHash
            /\ (DerivesKey /\ ErrOf("hashData")' = "") =>
                  /\ ownHash' = PKG_HASH
                  /\ seen'.key = hasha(dataOf(ownHash', call'.input, call'.metadata))]_vars

\* The second wrapper of the module, with a salt, derived a key without
\* computing the own hash: it reused the one the first wrapper's call had
\* computed, and the two recorded keys differ only by the salt.
C40_Witness ==
    /\ CacheEnabled
    /\ count.rewrap = 1
    /\ ownHash = PKG_HASH
    /\ Did("hashData")
    /\ ~Did("getOwnHash")
    /\ Len(hashes) = 2
    /\ hashes[1].salt # hashes[2].salt
    /\ hashes[1].input = hashes[2].input
    /\ hashes[2].hash = hasha(<<PKG_HASH, hashes[2].input, hashes[2].salt>>)
    /\ hashes[1].hash = hasha(<<PKG_HASH, hashes[1].input, hashes[1].salt>>)
    /\ seen.key = hashes[2].hash

====
